---- MODULE Spec2Model ----
(***************************************************************************)
(* Model of the two command-line tools of the Gemma 3 270M browser demo:   *)
(*   setup/convert_gemma.py  (the converter)                               *)
(*   setup/check_setup.py    (the setup verifier)                          *)
(* Both are sequential procedures acting on the filesystem.  The model     *)
(* keeps the filesystem as a set of directories and a map from file paths  *)
(* to the run that last wrote them; a path is the sequence of its          *)
(* components below the filesystem root.                                   *)
(***************************************************************************)
EXTENDS Integers, Sequences, FiniteSets, TLC

VARIABLES env, dirs, files, pc, runNo, run, report, history, startFs

vars == <<env, dirs, files, pc, runNo, run, report, history, startFs>>

\* Number of tool runs in one behaviour.
MaxRuns == 2

(***************************************************************************)
(* Paths                                                                   *)
(***************************************************************************)
Parent(p) == IF p = <<>> THEN <<>> ELSE SubSeq(p, 1, Len(p) - 1)

\* A relative path joined to a base directory; ".." steps to the parent,
\* as the operating system resolves it.
RECURSIVE Resolve(_, _)
Resolve(base, rel) ==
  IF rel = <<>> THEN base
  ELSE IF Head(rel) = ".." THEN Resolve(Parent(base), Tail(rel))
  ELSE Resolve(Append(base, Head(rel)), Tail(rel))

Prefixes(p) == { SubSeq(p, 1, k) : k \in 0..Len(p) }

\* Path.exists()
Exists(d, f, p) == p \in d \/ p \in DOMAIN f

\* Path.mkdir(parents=True, exist_ok=True)
MkdirParents(d, p) == d \cup Prefixes(p)

\* Path.mkdir(exist_ok=True)
MkdirExistOk(d, p) == d \cup {p}

\* open(path, "w") followed by a dump: the file holds what run n wrote.
WriteFile(f, p, n) == [q \in DOMAIN f \cup {p} |-> IF q = p THEN n ELSE f[q]]

SeqToSet(s) == { s[i] : i \in 1..Len(s) }

(***************************************************************************)
(* Environment                                                             *)
(***************************************************************************)
\* Directories the tools are started from.
SetupDir == <<"proj", "setup">>
WebDir == <<"proj", "web">>
WorkDirs == {SetupDir, WebDir}

\* Importable modules of the Python installation.
Modules == {"transformers", "optimum.onnxruntime", "torch",
            "huggingface_hub", "onnx", "onnxruntime"}

\* HF_TOKEN: unset, or set to a token the hub accepts or rejects.
Tokens == {"unset", "valid", "invalid"}

\* Whether the hub serves the model only to authenticated callers.
HubPolicies == BOOLEAN

(***************************************************************************)
(* convert_gemma.py                                                        *)
(***************************************************************************)
required_packages == <<"transformers", "optimum[onnxruntime]", "torch", "huggingface_hub">>

\* The import statement check_dependencies runs for a package name.
PackageImports(importable, package) ==
  IF package = "optimum[onnxruntime]" THEN "optimum.onnxruntime" \in importable
  ELSE package \in importable

missing_packages(importable) ==
  SelectSeq(required_packages, LAMBDA package : ~PackageImports(importable, package))

check_dependencies(importable) == missing_packages(importable) = <<>>

\* Path("../web/models/gemma-3-270m-onnx")
ConverterModelDir == <<"..", "web", "models", "gemma-3-270m-onnx">>

model_dir(cwd) == Resolve(cwd, ConverterModelDir)

\* setup_directories, with shutil.rmtree of the model root first.
setup_directories_fresh(fs, cwd) ==
  LET under(p) == Len(p) >= Len(model_dir(cwd))
                  /\ SubSeq(p, 1, Len(model_dir(cwd))) = model_dir(cwd)
      kept == { p \in DOMAIN fs.files : ~under(p) }
  IN [dirs |-> MkdirExistOk(MkdirExistOk(
                   MkdirParents({ p \in fs.dirs : ~under(p) }, model_dir(cwd)),
                   Append(model_dir(cwd), "onnx")),
                 Append(model_dir(cwd), "tokenizer")),
      files |-> [p \in kept |-> fs.files[p]]]

\* The filesystem after setup_directories.
setup_directories(fs, cwd) ==
  [dirs |-> MkdirExistOk(MkdirExistOk(MkdirParents(fs.dirs, model_dir(cwd)),
                                      Append(model_dir(cwd), "onnx")),
                         Append(model_dir(cwd), "tokenizer")),
   files |-> fs.files]

\* auth_token as main resolves it from os.environ; "none" is None.
ResolveToken(token) == IF token = "unset" THEN "none" ELSE token

\* Whether the hub serves a from_pretrained call carrying this token.
HubServes(requiresAuth, auth_token) == ~requiresAuth \/ auth_token = "valid"

\* The files the two save_pretrained calls and the descriptor writes produce.
OnnxFile(cwd) == model_dir(cwd) \o <<"onnx", "model.onnx">>
TokenizerFile(cwd) == model_dir(cwd) \o <<"tokenizer", "tokenizer.json">>
ConfigFile(cwd) == Append(model_dir(cwd), "config.json")
ManifestFile(cwd) == Append(model_dir(cwd), "manifest.json")

\* What a verifier run has printed and collected; empty when a process starts.
EmptyReport == [checks |-> <<>>, missing_files |-> <<>>, missing_deps |-> <<>>,
                dir_found |-> TRUE, missing_model_files |-> <<>>, hints |-> {},
                summary |-> "none"]

Step(s) == run' = [run EXCEPT !.trace = Append(@, s)]

Exit(code) ==
  /\ pc' = "idle"
  /\ run' = [run EXCEPT !.exit = code]
  /\ history' = Append(history, [tool |-> run.tool, exit |-> code])

\* convert_model_to_onnx returns False from one of its except clauses.
ConversionFails(s) ==
  /\ pc' = "c_result"
  /\ run' = [run EXCEPT !.success = FALSE, !.failedAt = s]

StartConverter ==
  /\ pc = "idle"
  /\ runNo < MaxRuns
  /\ runNo' = runNo + 1
  /\ pc' = "c_deps"
  /\ run' = [tool |-> "convert", auth_token |-> "none", trace |-> <<>>,
             success |-> FALSE, failedAt |-> "none", exit |-> -1]
  /\ report' = EmptyReport
  /\ startFs' = [dirs |-> dirs, files |-> files]
  /\ UNCHANGED <<env, dirs, files, history>>

\* ConverterCheckDeps that reports missing packages and carries on.
ConverterCheckDeps_NoAbort ==
  /\ pc = "c_deps"
  /\ pc' = "c_setup"
  /\ UNCHANGED <<env, dirs, files, runNo, run, report, history, startFs>>

\* main: if not check_dependencies(): sys.exit(1)
ConverterCheckDeps ==
  /\ pc = "c_deps"
  /\ IF check_dependencies(env.importable)
     THEN /\ pc' = "c_setup"
          /\ UNCHANGED <<run, history>>
     ELSE Exit(1)
  /\ UNCHANGED <<env, dirs, files, runNo, report, startFs>>

\* main: model_dir = setup_directories()
ConverterSetupDirs ==
  /\ pc = "c_setup"
  /\ LET fs == setup_directories([dirs |-> dirs, files |-> files], env.cwd)
     IN dirs' = fs.dirs /\ files' = fs.files
  /\ Step("dirs")
  /\ pc' = "c_token"
  /\ UNCHANGED <<env, runNo, report, history, startFs>>

\* ConverterResolveToken that exits when HF_TOKEN is unset.
ConverterResolveToken_Strict ==
  /\ pc = "c_token"
  /\ IF env.token = "unset"
     THEN Exit(1)
     ELSE /\ run' = [run EXCEPT !.auth_token = ResolveToken(env.token),
                                !.trace = Append(@, "token")]
          /\ pc' = "c_export"
          /\ UNCHANGED history
  /\ UNCHANGED <<env, dirs, files, runNo, report, startFs>>

\* main: the HF_TOKEN lookup; an unset variable prints a warning only.
ConverterResolveToken ==
  /\ pc = "c_token"
  /\ run' = [run EXCEPT !.auth_token = ResolveToken(env.token),
                        !.trace = Append(@, "token")]
  /\ pc' = "c_export"
  /\ UNCHANGED <<env, dirs, files, runNo, report, history, startFs>>

\* convert_model_to_onnx: the two imports and ORTModelForCausalLM.from_pretrained.
ConverterExportModel ==
  /\ pc = "c_export"
  /\ \E ok \in BOOLEAN :
       /\ ok => /\ {"optimum.onnxruntime", "transformers"} \subseteq env.importable
                /\ HubServes(env.requiresAuth, run.auth_token)
       /\ IF ok THEN Step("export") /\ pc' = "c_tokenizer"
                ELSE ConversionFails("export")
  /\ UNCHANGED <<env, dirs, files, runNo, report, history, startFs>>

\* ConverterLoadTokenizer that dumps config.json as soon as vocab_size is known.
ConverterLoadTokenizer_ConfigEarly ==
  /\ pc = "c_tokenizer"
  /\ \E ok \in BOOLEAN :
       /\ ok => HubServes(env.requiresAuth, run.auth_token)
       /\ IF ok THEN /\ Step("tokenizer")
                     /\ pc' = "c_save_model"
                     /\ files' = WriteFile(files, ConfigFile(env.cwd), runNo)
                ELSE ConversionFails("tokenizer") /\ UNCHANGED files
  /\ UNCHANGED <<env, dirs, runNo, report, history, startFs>>

\* convert_model_to_onnx: AutoTokenizer.from_pretrained.
ConverterLoadTokenizer ==
  /\ pc = "c_tokenizer"
  /\ \E ok \in BOOLEAN :
       /\ ok => HubServes(env.requiresAuth, run.auth_token)
       /\ IF ok THEN Step("tokenizer") /\ pc' = "c_save_model"
                ELSE ConversionFails("tokenizer")
  /\ UNCHANGED <<env, dirs, files, runNo, report, history, startFs>>

\* convert_model_to_onnx: ort_model.save_pretrained(onnx_path); a save that
\* raises may or may not have written its file already.
ConverterSaveModel ==
  /\ pc = "c_save_model"
  /\ \E ok \in BOOLEAN, wrote \in BOOLEAN :
       /\ ok => wrote
       /\ files' = IF wrote THEN WriteFile(files, OnnxFile(env.cwd), runNo) ELSE files
       /\ IF ok THEN Step("save_model") /\ pc' = "c_save_tok"
                ELSE ConversionFails("save_model")
  /\ UNCHANGED <<env, dirs, runNo, report, history, startFs>>

\* convert_model_to_onnx: tokenizer.save_pretrained(tokenizer_path).
ConverterSaveTokenizer ==
  /\ pc = "c_save_tok"
  /\ \E ok \in BOOLEAN, wrote \in BOOLEAN :
       /\ ok => wrote
       /\ files' = IF wrote THEN WriteFile(files, TokenizerFile(env.cwd), runNo) ELSE files
       /\ IF ok THEN Step("save_tokenizer") /\ pc' = "c_config"
                ELSE ConversionFails("save_tokenizer")
  /\ UNCHANGED <<env, dirs, runNo, report, history, startFs>>

\* convert_model_to_onnx: the config.json dump, then return True.
ConverterWriteConfig ==
  /\ pc = "c_config"
  /\ files' = WriteFile(files, ConfigFile(env.cwd), runNo)
  /\ run' = [run EXCEPT !.trace = Append(@, "config"), !.success = TRUE]
  /\ pc' = "c_result"
  /\ UNCHANGED <<env, dirs, runNo, report, history, startFs>>

\* The files present after create_browser_manifest.
create_browser_manifest(f, cwd, n) == WriteFile(f, ManifestFile(cwd), n)

\* ConverterFinish that writes the manifest whatever the conversion returned.
ConverterFinish_Unguarded ==
  /\ pc = "c_result"
  /\ files' = create_browser_manifest(files, env.cwd, runNo)
  /\ pc' = "idle"
  /\ run' = [run EXCEPT !.trace = Append(@, "manifest"),
                        !.exit = IF run.success THEN 0 ELSE 1]
  /\ history' = Append(history, [tool |-> run.tool,
                                 exit |-> IF run.success THEN 0 ELSE 1])
  /\ UNCHANGED <<env, dirs, runNo, report, startFs>>

\* main: if success: create_browser_manifest(...) else: sys.exit(1)
ConverterFinish ==
  /\ pc = "c_result"
  /\ IF run.success
     THEN /\ files' = create_browser_manifest(files, env.cwd, runNo)
          /\ pc' = "idle"
          /\ run' = [run EXCEPT !.trace = Append(@, "manifest"), !.exit = 0]
          /\ history' = Append(history, [tool |-> run.tool, exit |-> 0])
     ELSE /\ Exit(1)
          /\ UNCHANGED files
  /\ UNCHANGED <<env, dirs, runNo, report, startFs>>

(***************************************************************************)
(* check_setup.py                                                          *)
(***************************************************************************)
required_files == <<"index.html", "script.js", "styles.css", "gemma-loader.js",
                    "convert_gemma.py", "requirements.txt", "CLAUDE.md">>

deps == <<"transformers", "optimum", "torch", "huggingface_hub", "onnx", "onnxruntime">>

\* Path("models/gemma-3-270m-onnx")
VerifierModelDir == <<"models", "gemma-3-270m-onnx">>

required_model_files == << <<"onnx", "model.onnx">>, <<"tokenizer", "tokenizer.json">>,
                           <<"config.json">>, <<"manifest.json">> >>

check_files(d, f, cwd) ==
  LET missing_files == SelectSeq(required_files,
                                 LAMBDA file : ~Exists(d, f, Resolve(cwd, <<file>>)))
  IN [ok |-> missing_files = <<>>, missing |-> missing_files]

\* The import statement check_python_deps runs for a dependency name.
DepImports(importable, dep) ==
  IF dep = "optimum" THEN "optimum.onnxruntime" \in importable
  ELSE dep \in importable

check_python_deps(importable) ==
  LET missing_deps == SelectSeq(deps, LAMBDA dep : ~DepImports(importable, dep))
  IN [ok |-> missing_deps = <<>>, missing |-> missing_deps]

\* The import of whoami and the call; any exception gives False.
check_hf_auth(importable, whoamiOk) == "huggingface_hub" \in importable /\ whoamiOk

\* check_model_conversion that tests the listed paths against the working
\* directory instead of the model root.
check_model_conversion_cwd(d, f, cwd) ==
  LET root == Resolve(cwd, VerifierModelDir)
      missing_model_files ==
        SelectSeq(required_model_files, LAMBDA file : ~Exists(d, f, cwd \o file))
  IN IF ~Exists(d, f, root)
     THEN [ok |-> FALSE, dir_found |-> FALSE, missing |-> <<>>]
     ELSE [ok |-> missing_model_files = <<>>, dir_found |-> TRUE,
           missing |-> missing_model_files]

check_model_conversion(d, f, cwd) ==
  LET root == Resolve(cwd, VerifierModelDir)
      missing_model_files ==
        SelectSeq(required_model_files, LAMBDA file : ~Exists(d, f, root \o file))
  IN IF ~Exists(d, f, root)
     THEN [ok |-> FALSE, dir_found |-> FALSE, missing |-> <<>>]
     ELSE [ok |-> missing_model_files = <<>>, dir_found |-> TRUE,
           missing |-> missing_model_files]

StartVerifier ==
  /\ pc = "idle"
  /\ runNo < MaxRuns
  /\ runNo' = runNo + 1
  /\ pc' = "v_files"
  /\ run' = [tool |-> "verify", auth_token |-> "none", trace |-> <<>>,
             success |-> FALSE, failedAt |-> "none", exit |-> -1]
  /\ report' = EmptyReport
  /\ startFs' = [dirs |-> dirs, files |-> files]
  /\ UNCHANGED <<env, dirs, files, history>>

VerifierCheckFiles ==
  /\ pc = "v_files"
  /\ LET r == check_files(dirs, files, env.cwd)
     IN report' = [report EXCEPT !.checks = Append(@, r.ok), !.missing_files = r.missing]
  /\ Step("files")
  /\ pc' = "v_deps"
  /\ UNCHANGED <<env, dirs, files, runNo, history, startFs>>

VerifierCheckDeps ==
  /\ pc = "v_deps"
  /\ LET r == check_python_deps(env.importable)
     IN report' = [report EXCEPT !.checks = Append(@, r.ok), !.missing_deps = r.missing]
  /\ Step("deps")
  /\ pc' = "v_auth"
  /\ UNCHANGED <<env, dirs, files, runNo, history, startFs>>

\* VerifierCheckAuth whose failure ends the run.
VerifierCheckAuth_Fatal ==
  /\ pc = "v_auth"
  /\ report' = [report EXCEPT
                  !.checks = Append(@, check_hf_auth(env.importable, env.whoamiOk))]
  /\ IF check_hf_auth(env.importable, env.whoamiOk)
     THEN Step("auth") /\ pc' = "v_model" /\ UNCHANGED history
     ELSE Exit(1)
  /\ UNCHANGED <<env, dirs, files, runNo, startFs>>

VerifierCheckAuth ==
  /\ pc = "v_auth"
  /\ report' = [report EXCEPT
                  !.checks = Append(@, check_hf_auth(env.importable, env.whoamiOk))]
  /\ Step("auth")
  /\ pc' = "v_model"
  /\ UNCHANGED <<env, dirs, files, runNo, history, startFs>>

\* VerifierCheckModel that creates the model root it does not find.
VerifierCheckModel_Mkdir ==
  /\ pc = "v_model"
  /\ LET r == check_model_conversion(dirs, files, env.cwd)
     IN report' = [report EXCEPT !.checks = Append(@, r.ok),
                                 !.dir_found = r.dir_found,
                                 !.missing_model_files = r.missing]
  /\ dirs' = MkdirParents(dirs, Resolve(env.cwd, VerifierModelDir))
  /\ Step("model")
  /\ pc' = "v_summary"
  /\ UNCHANGED <<env, files, runNo, history, startFs>>

VerifierCheckModel ==
  /\ pc = "v_model"
  /\ LET r == check_model_conversion(dirs, files, env.cwd)
     IN report' = [report EXCEPT !.checks = Append(@, r.ok),
                                 !.dir_found = r.dir_found,
                                 !.missing_model_files = r.missing]
  /\ Step("model")
  /\ pc' = "v_summary"
  /\ UNCHANGED <<env, dirs, files, runNo, history, startFs>>

\* An exit status that gates on the checks.
VerifierExitCode_Gating(checks) ==
  IF \A i \in 1..Len(checks) : checks[i] THEN 0 ELSE 1

\* The process exit status main of check_setup.py ends with.
VerifierExitCode(checks) == 0

\* main: the summary and the remediation hints; main returns normally.
VerifierSummary ==
  /\ pc = "v_summary"
  /\ report' = [report EXCEPT
       !.summary = IF \A i \in 1..Len(report.checks) : report.checks[i]
                   THEN "complete" ELSE "incomplete",
       !.hints = {h \in {"deps", "auth", "model"} :
                    \/ h = "deps" /\ ~report.checks[2]
                    \/ h = "auth" /\ ~report.checks[3]
                    \/ h = "model" /\ ~report.checks[4]}]
  /\ Exit(VerifierExitCode(report.checks))
  /\ UNCHANGED <<env, dirs, files, runNo, startFs>>

(***************************************************************************)
(* Specifications                                                          *)
(***************************************************************************)
\* How many modules may fail to import.
MaxMissing == 1

Lacking(S) == { S \ m : m \in { x \in SUBSET S : Cardinality(x) <= MaxMissing } }

\* The project files of a checkout: complete, or with one file not there
\* (InitFiles below ranges over every subset).
Checkouts == { SeqToSet(required_files) \ m :
                 m \in {{}} \cup { {file} : file \in SeqToSet(required_files) } }

ProjectDirs == Prefixes(SetupDir) \cup Prefixes(WebDir)

FilesIn(cwd, names) == [p \in { Resolve(cwd, <<n>>) : n \in names } |-> 0]

NoRun == [tool |-> "none", auth_token |-> "none", trace |-> <<>>,
          success |-> FALSE, failedAt |-> "none", exit |-> -1]

\* A checkout with no converted model, started from either directory.
Init ==
  /\ env \in [cwd : WorkDirs, importable : Lacking(Modules), token : Tokens,
               requiresAuth : HubPolicies, whoamiOk : BOOLEAN]
  /\ dirs = ProjectDirs
  /\ \E present \in Checkouts : files = FilesIn(env.cwd, present)
  /\ pc = "idle"
  /\ runNo = 0
  /\ run = NoRun
  /\ report = EmptyReport
  /\ history = <<>>
  /\ startFs = [dirs |-> dirs, files |-> files]

Converter ==
  \/ StartConverter
  \/ ConverterCheckDeps
  \/ ConverterSetupDirs
  \/ ConverterResolveToken
  \/ ConverterExportModel
  \/ ConverterLoadTokenizer
  \/ ConverterSaveModel
  \/ ConverterSaveTokenizer
  \/ ConverterWriteConfig
  \/ ConverterFinish

Verifier ==
  \/ StartVerifier
  \/ VerifierCheckFiles
  \/ VerifierCheckDeps
  \/ VerifierCheckAuth
  \/ VerifierCheckModel
  \/ VerifierSummary

Next == Converter \/ Verifier

Spec == Init /\ [][Next]_vars

\* Any state of the project files and of the model root the verifier looks at.
InitFiles ==
  /\ env \in [cwd : WorkDirs, importable : {Modules}, token : {"unset"},
               requiresAuth : {FALSE}, whoamiOk : {TRUE}]
  /\ \E present \in SUBSET SeqToSet(required_files),
        rootPresent \in BOOLEAN,
        model \in SUBSET SeqToSet(required_model_files) :
       LET root == Resolve(env.cwd, VerifierModelDir)
           modelFiles == { root \o file : file \in model }
       IN /\ ~rootPresent => model = {}
          /\ dirs = ProjectDirs
                    \cup (IF rootPresent THEN Prefixes(root) ELSE {})
                    \cup { Parent(p) : p \in modelFiles }
          /\ files = [p \in DOMAIN FilesIn(env.cwd, present) \cup modelFiles |-> 0]
  /\ pc = "idle"
  /\ runNo = 0
  /\ run = NoRun
  /\ report = EmptyReport
  /\ history = <<>>
  /\ startFs = [dirs |-> dirs, files |-> files]

SpecFiles == InitFiles /\ [][Verifier]_vars

(***************************************************************************)
(* Properties                                                              *)
(***************************************************************************)
ConverterDone == run.tool = "convert" /\ run.exit # -1
VerifierDone == run.tool = "verify" /\ run.exit # -1

WrittenByRun(p) == p \in DOMAIN files /\ files[p] = runNo

ModelTree(cwd) == {model_dir(cwd), Append(model_dir(cwd), "onnx"),
                   Append(model_dir(cwd), "tokenizer")}

AbsentFiles == { file \in SeqToSet(required_files) :
                   Resolve(env.cwd, <<file>>) \notin dirs \cup DOMAIN files }

AbsentModelFiles == { file \in SeqToSet(required_model_files) :
                        Resolve(env.cwd, VerifierModelDir) \o file
                          \notin dirs \cup DOMAIN files }

VerifierRootPresent == Resolve(env.cwd, VerifierModelDir) \in dirs

\* C1: with every module importable, every project file present, a valid
\* token, a working hub identity and no model directory at the start, a
\* converter run that exits zero has written the four model files, they are
\* the paths the verifier inspects, and the verifier run that follows
\* passes all four checks.
C1_EndToEnd ==
  ( /\ VerifierDone
    /\ history = << [tool |-> "convert", exit |-> 0], [tool |-> "verify", exit |-> 0] >>
    /\ env.importable = Modules
    /\ env.token = "valid"
    /\ env.whoamiOk
    /\ AbsentFiles = {} )
  => /\ {OnnxFile(env.cwd), TokenizerFile(env.cwd), ConfigFile(env.cwd),
         ManifestFile(env.cwd)} \subseteq DOMAIN files
     /\ model_dir(env.cwd) = Resolve(env.cwd, VerifierModelDir)
     /\ report.checks = <<TRUE, TRUE, TRUE, TRUE>>

\* C2: a finished converter run has a non-zero exit status exactly when the
\* dependency check found a missing package or the conversion reported
\* failure; with a missing package nothing was set up, resolved, converted
\* or written.
C2_ConverterExit ==
  ConverterDone =>
    /\ run.exit \in {0, 1}
    /\ run.exit # 0 <=> (~check_dependencies(env.importable) \/ run.failedAt # "none")
    /\ ~check_dependencies(env.importable) =>
         /\ run.trace = <<>>
         /\ run.auth_token = "none"
         /\ run.failedAt = "none"
         /\ dirs = startFs.dirs
         /\ files = startFs.files

C2_Witness ==
  /\ ConverterDone
  /\ run.exit = 1
  /\ ~check_dependencies(env.importable)
  /\ env.token = "valid"

\* C3 (as stated): each file check succeeds exactly when every listed file
\* exists, and on failure names exactly the absent files, also when the
\* model root is absent.
C3_NamesExactlyAbsent ==
  VerifierDone =>
    /\ report.checks[1] <=> AbsentFiles = {}
    /\ SeqToSet(report.missing_files) = AbsentFiles
    /\ report.checks[4] <=> AbsentModelFiles = {}
    /\ SeqToSet(report.missing_model_files) = AbsentModelFiles

\* C3 (amended): as above, except that with the model root absent the
\* model check fails reporting the directory as not found and names no file.
C3_NamesAbsentUnlessNoRoot ==
  VerifierDone =>
    /\ report.checks[1] <=> AbsentFiles = {}
    /\ SeqToSet(report.missing_files) = AbsentFiles
    /\ report.checks[4] <=> AbsentModelFiles = {}
    /\ report.dir_found <=> VerifierRootPresent
    /\ VerifierRootPresent =>
         SeqToSet(report.missing_model_files) = AbsentModelFiles
    /\ ~VerifierRootPresent =>
         ~report.checks[4] /\ report.missing_model_files = <<>>

C3_Witness ==
  /\ VerifierDone
  /\ VerifierRootPresent
  /\ AbsentModelFiles = { <<"tokenizer", "tokenizer.json">>, <<"manifest.json">> }
  /\ AbsentFiles = {"script.js", "CLAUDE.md"}
  /\ report.missing_files = <<"script.js", "CLAUDE.md">>

StepsOrder == <<"dirs", "token", "export", "tokenizer", "save_model",
                "save_tokenizer", "config", "manifest">>

IndexOf(s, x) == CHOOSE i \in 1..Len(s) : s[i] = x

\* C4: once an export or save step has raised, the run stops where it
\* failed: no later step runs, neither descriptor is written by the run, the
\* run exits non-zero, and the directories created stay in place.
C4_FailureAborts ==
  (run.tool = "convert" /\ run.failedAt # "none") =>
    /\ run.failedAt \in {"export", "tokenizer", "save_model", "save_tokenizer"}
    /\ run.trace = SubSeq(StepsOrder, 1, IndexOf(StepsOrder, run.failedAt) - 1)
    /\ ~run.success
    /\ ~WrittenByRun(ManifestFile(env.cwd))
    /\ ~WrittenByRun(ConfigFile(env.cwd))
    /\ ModelTree(env.cwd) \subseteq dirs
    /\ startFs.dirs \subseteq dirs
    /\ run.exit \in {-1, 1}
    /\ pc = "idle" => run.exit = 1

C4_Witness ==
  /\ ConverterDone
  /\ run.failedAt = "save_tokenizer"
  /\ run.exit = 1
  /\ WrittenByRun(OnnxFile(env.cwd))

\* C5: with HF_TOKEN unset the run passes token resolution with no token;
\* if the hub then demands authentication the run fails at the export call
\* and nowhere else, with the model root, onnx/ and tokenizer/ created.
C5_UnsetTokenFailsAtExport ==
  (run.tool = "convert" /\ env.token = "unset") =>
    /\ run.auth_token = "none"
    /\ pc = "c_export" => run.exit = -1 /\ run.failedAt = "none"
    /\ env.requiresAuth =>
         /\ run.failedAt \in {"none", "export"}
         /\ (ConverterDone /\ check_dependencies(env.importable)) =>
              run.failedAt = "export"
    /\ run.failedAt = "export" =>
         /\ run.trace = <<"dirs", "token">>
         /\ ModelTree(env.cwd) \subseteq dirs

C5_Witness ==
  /\ ConverterDone
  /\ env.token = "unset"
  /\ env.requiresAuth
  /\ run.failedAt = "export"
  /\ runNo = 1
  /\ ModelTree(env.cwd) \subseteq dirs

\* C6: a finished verifier run has exit status zero and has printed its
\* summary, whatever the four checks returned.
C6_VerifierExitsZero ==
  VerifierDone =>
    /\ run.exit = 0
    /\ Len(report.checks) = 4
    /\ report.summary = IF report.checks = <<TRUE, TRUE, TRUE, TRUE>>
                         THEN "complete" ELSE "incomplete"

C6_Witness ==
  /\ VerifierDone
  /\ report.checks = <<FALSE, FALSE, FALSE, FALSE>>
  /\ report.hints = {"deps", "auth", "model"}

\* C7: a finished verifier run has run the four checks, and each recorded
\* outcome is the outcome of that check on the environment alone, whatever
\* the other checks returned.
C7_AllChecksRun ==
  VerifierDone =>
    /\ run.trace = <<"files", "deps", "auth", "model">>
    /\ Len(report.checks) = 4
    /\ report.checks[1] <=> AbsentFiles = {}
    /\ report.checks[2] <=>
         {"transformers", "optimum.onnxruntime", "torch", "huggingface_hub",
          "onnx", "onnxruntime"} \subseteq env.importable
    /\ report.checks[3] <=> ("huggingface_hub" \in env.importable /\ env.whoamiOk)
    /\ report.checks[4] <=> AbsentModelFiles = {}

C7_Witness ==
  /\ VerifierDone
  /\ report.checks = <<TRUE, TRUE, FALSE, TRUE>>

\* C8: directory setup applied to the filesystem any run starts on or ends
\* with keeps every file and directory, yields the model root with onnx/ and
\* tokenizer/, and applied again changes nothing; the converter's setup step
\* does just that.
C8_SetupIdempotent ==
  LET fs == [dirs |-> dirs, files |-> files]
      once == setup_directories(fs, env.cwd)
  IN /\ pc \in {"idle", "c_setup", "c_token"} =>
          /\ setup_directories(once, env.cwd) = once
          /\ once.files = fs.files
          /\ fs.dirs \subseteq once.dirs
          /\ ModelTree(env.cwd) \subseteq once.dirs
     /\ pc = "c_token" =>
          /\ fs = setup_directories(startFs, env.cwd)
          /\ files = startFs.files
          /\ startFs.dirs \subseteq dirs

C8_Witness ==
  /\ pc = "c_token"
  /\ runNo = 2
  /\ {OnnxFile(env.cwd), TokenizerFile(env.cwd), ConfigFile(env.cwd),
      ManifestFile(env.cwd)} \subseteq DOMAIN startFs.files
  /\ dirs = startFs.dirs

\* C9: throughout and after a verifier run the directories and files are
\* those the run started with.
C9_VerifierReadOnly ==
  run.tool = "verify" => dirs = startFs.dirs /\ files = startFs.files

C9_Witness ==
  /\ VerifierDone
  /\ report.checks = <<FALSE, TRUE, TRUE, FALSE>>
  /\ ManifestFile(env.cwd) \in DOMAIN files

\* C10: within a converter run manifest.json is written only after
\* config.json, config.json only after both saves, the tokenizer only after
\* the model, and every write only after the directories; a run that fails
\* leaves config.json and manifest.json as it found them.
C10_WriteOrder ==
  run.tool = "convert" =>
    /\ WrittenByRun(ManifestFile(env.cwd)) =>
         WrittenByRun(ConfigFile(env.cwd)) /\ run.success
    /\ WrittenByRun(ConfigFile(env.cwd)) =>
         /\ WrittenByRun(OnnxFile(env.cwd))
         /\ WrittenByRun(TokenizerFile(env.cwd))
    /\ WrittenByRun(TokenizerFile(env.cwd)) => WrittenByRun(OnnxFile(env.cwd))
    /\ WrittenByRun(OnnxFile(env.cwd)) => ModelTree(env.cwd) \subseteq dirs
    /\ (ConverterDone /\ run.exit # 0) =>
         \A p \in {ConfigFile(env.cwd), ManifestFile(env.cwd)} :
            /\ p \in DOMAIN files <=> p \in DOMAIN startFs.files
            /\ p \in DOMAIN files => files[p] = startFs.files[p]

C10_Witness ==
  /\ ConverterDone
  /\ runNo = 2
  /\ run.exit = 1
  /\ run.failedAt = "save_tokenizer"
  /\ WrittenByRun(OnnxFile(env.cwd))
  /\ ConfigFile(env.cwd) \in DOMAIN files /\ files[ConfigFile(env.cwd)] = 1
  /\ ManifestFile(env.cwd) \in DOMAIN files /\ files[ManifestFile(env.cwd)] = 1

====
